---------------------------- MODULE Spec2Model ----------------------------
(***************************************************************************)
(* A model of the store package: Store (a writable cell over a reactive    *)
(* signal), Derived (a memoized computation over Stores and Deriveds), the *)
(* scheduler (batch, queueSignalUpdate, __flush, __flush_internals) and    *)
(* the dependency-graph registry (__storeToDerived, __derivedToStore).     *)
(*                                                                         *)
(* The program is single threaded and synchronous.  Every public call      *)
(* (setState, batch entry/exit, mount, unmount, subscribe, a read of       *)
(* state) is one action; the action computes the whole call, callbacks     *)
(* included, by threading a machine record m through operators that follow *)
(* the source statement by statement.  m.log records what the call did     *)
(* (compute-function invocations with their arguments, recompute() calls,  *)
(* listener calls), in order.                                              *)
(***************************************************************************)
EXTENDS Integers, Sequences, FiniteSets, TLC

\* ------------------------------------------------------------------ bounds
\* Store values and compute results range over 0..MaxVal.
MaxVal == 2
\* Deepest nesting of batch() calls explored.
MaxBatchDepth == 2
\* Most unmount functions of one Derived that are held and not yet called.
MaxMounts == 1
\* Most calls the application makes in one run.
MaxCalls == 5

\* `undefined`
Undef == -1

Val == 0..MaxVal

\* The cells of the program under analysis: two Stores and three Deriveds,
\* constructed in the order B, C, D (a Derived's deps exist before it does).
Stores == {"A", "S"}
Deriveds == {"B", "C", "D"}
Cells == Stores \cup Deriveds
DerivedOrder == <<"B", "C", "D">>
\* The watchers one Effect can create: one for each call of its mount().
Watchers == {"E1", "E2"}
WatcherOrder == <<"E1", "E2">>

IsStore(c) == c \in Stores
IsDerived(c) == c \in Deriveds

Range(s) == {s[i] : i \in DOMAIN s}
Includes(s, x) == \E i \in DOMAIN s : s[i] = x

\* Array.prototype.indexOf: the first index of x (1-based), 0 when absent.
IndexOf(s, x) == IF Includes(s, x) THEN CHOOSE i \in DOMAIN s : s[i] = x /\ \A j \in 1..(i-1) : s[j] # x ELSE 0

\* The array of length n whose element i is f[i].
RECURSIVE ArrayFrom(_, _)
ArrayFrom(f, n) == IF n = 0 THEN <<>> ELSE Append(ArrayFrom(f, n - 1), f[n])

RemoveAt(s, i) == ArrayFrom([j \in 1..(Len(s)-1) |-> IF j < i THEN s[j] ELSE s[j+1]], Len(s) - 1)

RECURSIVE SumSeq(_)
SumSeq(s) == IF s = <<>> THEN 0 ELSE Head(s) + SumSeq(Tail(s))

VARIABLES
  deps,                       \* Derived.options.deps, fixed at construction
  kind,                       \* which compute function options.fn is
  onUpdate,                   \* Derived.options.onUpdate: absent, or a setState
  sig,                        \* Store._signal: the runtime's cell
  storePrev,                  \* Store.prevState
  storeOptions,               \* Store.options: is updateFn given, is onUpdate
  comp,                       \* Derived._computed: the runtime's memo
  dv,                         \* Derived's own fields
  lsn,                        \* subscribe(): the listener's watcher; and
                              \* the watchers Effect.mount() has created
  fx,                         \* the Effect: options, _stopEffect, and the
                              \* unmount functions handed out
  storeToDerived, s2dHas,     \* __storeToDerived (lists, and the keys set)
  derivedToStore, d2sHas,     \* __derivedToStore (sets, and the keys set)
  depsThatHaveWrittenThisTick,
  isFlushing,
  batchDepth,
  pendingUpdates,
  initialBatchValues,
  pendingSignalUpdates,
  handles,                    \* unmount functions returned by mount()
  calls,                      \* how many calls the application has made
  atBatchStart, batchWrites,  \* history: Store states when the outermost batch
                              \* began, and the writes each Store got in it
  ncalls, lastRet, lastCd,    \* history: invocations of each options.fn, what
                              \* the last one returned and was passed as
                              \* currDepVals
  log,                        \* what the last call did, in order
  threw,                      \* the last call ended by throwing
  lastOp                      \* the last call made by the application

vars == <<deps, kind, onUpdate, sig, storePrev, storeOptions, comp, dv, lsn, fx, storeToDerived, s2dHas, derivedToStore, d2sHas, depsThatHaveWrittenThisTick, isFlushing, batchDepth, pendingUpdates, initialBatchValues, pendingSignalUpdates, handles, calls, atBatchStart, batchWrites, ncalls, lastRet, lastCd, log, threw, lastOp>>

\* The machine: the program state a call works on, plus ret (the value the
\* last operator returned), b (its boolean result) and thrown.
Machine == [deps |-> deps, kind |-> kind, onUpdate |-> onUpdate, sig |-> sig, storePrev |-> storePrev, storeOptions |-> storeOptions, comp |-> comp, dv |-> dv, lsn |-> lsn, fx |-> fx, storeToDerived |-> storeToDerived, s2dHas |-> s2dHas, derivedToStore |-> derivedToStore, d2sHas |-> d2sHas, tick |-> depsThatHaveWrittenThisTick, isFlushing |-> isFlushing, batchDepth |-> batchDepth, pendingUpdates |-> pendingUpdates, initialBatchValues |-> initialBatchValues, pendingSignalUpdates |-> pendingSignalUpdates, ncalls |-> ncalls, lastRet |-> lastRet, lastCd |-> lastCd, log |-> <<>>, queue |-> <<>>, props |-> [pv |-> Undef, pdDef |-> FALSE, pd |-> <<>>, cd |-> <<>>], toSort |-> <<>>, ret |-> Undef, b |-> FALSE, thrown |-> FALSE, stepwise |-> FALSE]

\* The machine of a call whose flush is taken one pass of the while loop
\* at a time: __flush stops where the loop begins.
MachineStepwise == [Machine EXCEPT !.stepwise = TRUE]

\* The program state after a part of a call.
CommitState(m) ==
  /\ sig' = m.sig
  /\ storePrev' = m.storePrev
  /\ comp' = m.comp
  /\ dv' = m.dv
  /\ lsn' = m.lsn
  /\ fx' = m.fx
  /\ storeToDerived' = m.storeToDerived
  /\ s2dHas' = m.s2dHas
  /\ derivedToStore' = m.derivedToStore
  /\ d2sHas' = m.d2sHas
  /\ depsThatHaveWrittenThisTick' = m.tick
  /\ isFlushing' = m.isFlushing
  /\ batchDepth' = m.batchDepth
  /\ pendingUpdates' = m.pendingUpdates
  /\ initialBatchValues' = m.initialBatchValues
  /\ pendingSignalUpdates' = m.pendingSignalUpdates
  /\ ncalls' = m.ncalls
  /\ lastRet' = m.lastRet
  /\ lastCd' = m.lastCd
  /\ log' = m.log
  /\ threw' = m.thrown
  /\ UNCHANGED <<deps, kind, onUpdate, storeOptions>>

\* The program state after a call.
Commit(m) == CommitState(m) /\ calls' = calls + 1

\* One entry of the log.
Ev(t, c) == [t |-> t, c |-> c, n |-> 0, pv |-> Undef, pdDef |-> FALSE, pd |-> <<>>, cd |-> <<>>, r |-> Undef, lr |-> Undef, lcd |-> <<>>]
Emit(m, e) == [m EXCEPT !.log = Append(@, e)]

\* --------------------------------------------------- the reactive runtime
\* signal(), computed() and effect() of the runtime the package is built
\* on.  A signal holds value (what was last written), previousValue (what its
\* readers last saw) and a dirty flag; a computed holds its memoized value,
\* flags (clean, pending: something upstream was written, dirty: a dependency
\* did change) and whether it is linked to its dependencies; a watcher (the
\* effect behind subscribe) holds flags.  A computed or watcher re-runs only
\* when one of the values it read last time has changed.

\* The computeds that read cell c, in the order they were created.
ComputedSubs(m, c) == SelectSeq(DerivedOrder, LAMBDA d : Includes(m.deps[d], c) /\ m.comp[d].linked)

\* Watcher w reads cell c: the watcher of a listener reads the cell it was
\* subscribed to, a watcher of the Effect reads every cell of options.deps.
WatcherReads(m, w, c) == IF w \in Cells THEN w = c ELSE Includes(m.fx.options.deps, c)

HasSubs(m, c) == ComputedSubs(m, c) # <<>> \/ \E w \in Cells \cup Watchers : m.lsn[w].on /\ WatcherReads(m, w, c)

\* A watcher that reads c and is clean becomes pending and is queued.
Notify(m, w, c) == IF m.lsn[w].on /\ WatcherReads(m, w, c) /\ m.lsn[w].flags = "clean" THEN [m EXCEPT !.lsn[w].flags = "pending", !.queue = Append(@, w)] ELSE m

\* propagate: everything downstream of c that is clean becomes pending, and
\* each watcher reached is queued.
RECURSIVE Propagate(_, _, _)
Propagate(m, c, i) ==
  IF i > Len(DerivedOrder)
  THEN Notify(Notify(Notify(m, c, c), "E1", c), "E2", c)
  ELSE LET d == DerivedOrder[i] IN
       IF Includes(m.deps[d], c) /\ m.comp[d].linked /\ m.comp[d].flags = "clean"
       THEN Propagate(Propagate([m EXCEPT !.comp[d].flags = "pending"], d, 1), c, i + 1)
       ELSE Propagate(m, c, i + 1)

\* shallowPropagate: c did change, so its pending readers are dirty.
ShallowPropagate(m, c) ==
  LET m1 == [m EXCEPT !.comp = [d \in Deriveds |-> IF Includes(m.deps[d], c) /\ m.comp[d].linked /\ m.comp[d].flags = "pending" THEN [m.comp[d] EXCEPT !.flags = "dirty"] ELSE m.comp[d]]]
  IN [m1 EXCEPT !.lsn = [w \in Cells \cup Watchers |-> IF m1.lsn[w].on /\ WatcherReads(m1, w, c) /\ m1.lsn[w].flags = "pending" THEN [m1.lsn[w] EXCEPT !.flags = "dirty"] ELSE m1.lsn[w]]]

\* updateSignal: the readers have now seen the written value; b: it differs
\* from what they saw before.
UpdateSignal(m, s) == [m EXCEPT !.sig[s].dirty = FALSE, !.sig[s].previousValue = m.sig[s].value, !.b = (m.sig[s].previousValue # m.sig[s].value)]

\* A read of a signal.
ReadSignal(m, s) ==
  LET m1 == IF m.sig[s].dirty THEN UpdateSignal(m, s) ELSE [m EXCEPT !.b = FALSE]
      m2 == IF m1.b THEN ShallowPropagate(m1, s) ELSE m1
  IN [m2 EXCEPT !.ret = m.sig[s].value]

\* The compute functions the application may pass as options.fn.
Compute(k, props) == IF k \in {"sum", "strict"} THEN SumSeq(props.cd) % (MaxVal + 1) ELSE IF SumSeq(props.cd) > 0 THEN 1 ELSE 0

\* The compute function "strict" throws when that sum is the largest value.
Throws(k, props) == k = "strict" /\ SumSeq(props.cd) % (MaxVal + 1) = MaxVal

\* One invocation of options.fn of Derived d, with the arguments it is passed.
ApplyFn(m, d) ==
  IF Throws(m.kind[d], m.props) THEN [Emit(m, [Ev("throw", d) EXCEPT !.cd = m.props.cd]) EXCEPT !.thrown = TRUE] ELSE
  LET r == Compute(m.kind[d], m.props)
      n == IF m.ncalls[d] >= 2 THEN 2 ELSE m.ncalls[d] + 1
      e == [Ev("fn", d) EXCEPT !.n = n, !.pv = m.props.pv, !.pdDef = m.props.pdDef, !.pd = m.props.pd, !.cd = m.props.cd, !.r = r, !.lr = m.lastRet[d], !.lcd = m.lastCd[d]]
  IN [Emit(m, e) EXCEPT !.ncalls[d] = n, !.lastRet[d] = r, !.lastCd[d] = m.props.cd, !.ret = r]

\* Call(f, m, a): the call of function or method f with arguments a, made in
\* machine m; what it gives is the machine when the call returns.
RECURSIVE Call(_, _, _)
RECURSIVE CheckDirty(_, _, _, _)
RECURSIVE GetDepValsLoop(_, _, _)

\* After(m1, K): the statements K, run in the machine m1 a call has returned.
After(m1, K(_)) == K(m1)

\* Store.prevState or Derived.prevState of a dependency.
PrevStateOf(m, c) == IF IsStore(c) THEN m.storePrev[c] ELSE m.dv[c].prevState

\* The property reads inside getDepVals' loop, dependency i onward:
\* dep.prevState first, then dep.state.
GetDepValsLoop(m, d, i) ==
  IF m.thrown \/ i > Len(m.deps[d]) THEN m
  ELSE After(Call("ReadState", [m EXCEPT !.dv[d].prevDepValsArray[i] = PrevStateOf(m, m.deps[d][i])], <<m.deps[d][i]>>), LAMBDA m2 :
         IF m2.thrown THEN m2 ELSE GetDepValsLoop([m2 EXCEPT !.dv[d].currDepValsArray[i] = m2.ret], d, i + 1))

\* getDepVals: fills the two reused arrays and returns the props object.
GetDepVals(m, d) ==
  After(GetDepValsLoop(m, d, 1), LAMBDA m1 :
    IF m1.thrown THEN m1
    ELSE [m1 EXCEPT !.props = [pv |-> m1.dv[d].previousResult, pdDef |-> ~m1.dv[d].isFirstRun, pd |-> IF m1.dv[d].isFirstRun THEN <<>> ELSE m1.dv[d].prevDepValsArray, cd |-> m1.dv[d].currDepValsArray]])

\* lastSeenDepValues is assigned the _currDepValsArray object itself, so a
\* read of it gives that array's present contents.
LastSeenDepValues(m, d) == m.dv[d].currDepValsArray

\* The callback with _isFirstRun never reset.
ComputedCallbackFirstRunKept(m, d) ==
  After(GetDepVals([m EXCEPT !.dv[d].prevState = m.dv[d].cachedState], d), LAMBDA m2 :
    IF m2.thrown THEN m2
    ELSE After(ApplyFn(m2, d), LAMBDA m3 :
           IF m3.thrown THEN m3
           ELSE [m3 EXCEPT !.dv[d].cachedState = m3.ret, !.dv[d].previousResult = m3.ret]))

\* The callback without its first statement: prevState is left as it is.
ComputedCallbackPrevStateKept(m, d) ==
  After(GetDepVals(m, d), LAMBDA m2 :
    IF m2.thrown THEN m2
    ELSE After(ApplyFn(m2, d), LAMBDA m3 :
           IF m3.thrown THEN m3
           ELSE [m3 EXCEPT !.dv[d].isFirstRun = FALSE, !.dv[d].cachedState = m3.ret, !.dv[d].previousResult = m3.ret]))

\* The callback with _previousResult set from prevState, before fn runs.
ComputedCallbackPrevFromState(m, d) ==
  After(GetDepVals([m EXCEPT !.dv[d].prevState = m.dv[d].cachedState], d), LAMBDA m2 :
    IF m2.thrown THEN m2
    ELSE After(ApplyFn(m2, d), LAMBDA m3 :
           IF m3.thrown THEN m3
           ELSE [m3 EXCEPT !.dv[d].isFirstRun = FALSE, !.dv[d].cachedState = m3.ret, !.dv[d].previousResult = m2.dv[d].prevState]))

\* The callback the constructor passes to computed().
ComputedCallback(m, d) ==
  After(GetDepVals([m EXCEPT !.dv[d].prevState = m.dv[d].cachedState], d), LAMBDA m2 :
    IF m2.thrown THEN m2
    ELSE After(ApplyFn(m2, d), LAMBDA m3 :
           IF m3.thrown THEN m3
           ELSE [m3 EXCEPT !.dv[d].isFirstRun = FALSE, !.dv[d].cachedState = m3.ret, !.dv[d].previousResult = m3.ret]))

\* updateComputed: run the callback; b: the memoized value changed.
UpdateComputed(m, d) ==
  After(ComputedCallback([m EXCEPT !.comp[d].flags = "clean", !.comp[d].linked = TRUE], d), LAMBDA m1 :
    IF m1.thrown THEN m1
    ELSE [m1 EXCEPT !.comp[d].value = m1.ret, !.b = (m.comp[d].value # m1.ret)])

\* checkDirty: bring the dependencies of sub (a computed, k = "c", or the
\* watcher of a listener, k = "e") up to date one after the other, stopping
\* at the first that changed; b: one changed.
SubFlags(m, k, sub) == IF k = "e" THEN m.lsn[sub].flags ELSE m.comp[sub].flags
SubDeps(m, k, sub) == IF k = "c" THEN m.deps[sub] ELSE IF sub \in Cells THEN <<sub>> ELSE m.fx.options.deps

\* The dependency dep of sub, i-th of its list, has been brought up to date
\* in m1 (m1.b: it changed): mark its other readers, or go on to the next.
CheckDirtyNext(m1, k, sub, i, dep) ==
  IF m1.thrown THEN m1
  ELSE IF m1.b THEN [ShallowPropagate(m1, dep) EXCEPT !.b = TRUE]
  ELSE CheckDirty(m1, k, sub, i + 1)

CheckDirty(m, k, sub, i) ==
  IF m.thrown THEN m
  ELSE IF i > Len(SubDeps(m, k, sub)) THEN [m EXCEPT !.b = FALSE]
  ELSE IF SubFlags(m, k, sub) = "dirty" THEN [m EXCEPT !.b = TRUE]
  ELSE IF IsStore(SubDeps(m, k, sub)[i])
    THEN IF m.sig[SubDeps(m, k, sub)[i]].dirty
         THEN CheckDirtyNext(UpdateSignal(m, SubDeps(m, k, sub)[i]), k, sub, i, SubDeps(m, k, sub)[i])
         ELSE CheckDirty(m, k, sub, i + 1)
    ELSE IF m.comp[SubDeps(m, k, sub)[i]].flags = "dirty"
         THEN CheckDirtyNext(Call("UpdateComputed", m, <<SubDeps(m, k, sub)[i]>>), k, sub, i, SubDeps(m, k, sub)[i])
    ELSE IF m.comp[SubDeps(m, k, sub)[i]].flags = "pending"
         THEN After(CheckDirty(m, "c", SubDeps(m, k, sub)[i], 1), LAMBDA m1 :
                IF m1.thrown THEN m1
                ELSE IF m1.b THEN CheckDirtyNext(Call("UpdateComputed", m1, <<SubDeps(m, k, sub)[i]>>), k, sub, i, SubDeps(m, k, sub)[i])
                ELSE CheckDirty([m1 EXCEPT !.comp[SubDeps(m, k, sub)[i]].flags = "clean"], k, sub, i + 1))
    ELSE CheckDirty(m, k, sub, i + 1)

\* A call of the computed: re-run the callback if it is dirty, or pending
\* with a dependency that changed; return the memoized value.
ReadComputed(m, d) ==
  After(IF m.comp[d].flags = "pending" THEN Call("CheckDirty", m, <<"c", d, 1>>) ELSE [m EXCEPT !.b = (m.comp[d].flags = "dirty")], LAMBDA m1 :
    IF m1.thrown THEN m1
    ELSE IF m1.b
         THEN After(Call("UpdateComputed", m1, <<d>>), LAMBDA m2 :
                IF m2.thrown THEN m2
                ELSE IF m2.b THEN [ShallowPropagate(m2, d) EXCEPT !.ret = m2.comp[d].value]
                ELSE [m2 EXCEPT !.ret = m2.comp[d].value])
         ELSE [m1 EXCEPT !.comp[d].flags = "clean", !.ret = m1.comp[d].value])

\* The state getters of Store and Derived.
ReadState(m, c) == IF IsStore(c) THEN ReadSignal(m, c) ELSE Call("ReadComputed", m, <<c>>)

\* The function subscribe() hands to effect(): read state and, after the
\* first run, call the listener with the previous and the current value.
ListenerEffect(m, c) ==
  After(Call("ReadState", m, <<c>>), LAMBDA m1 :
    IF m1.thrown THEN m1
    ELSE [Emit(m1, [Ev("listener", c) EXCEPT !.pv = m1.lsn[c].prevVal, !.r = m1.ret]) EXCEPT !.lsn[c].prevVal = m1.ret])

\* The for loop of the function Effect.mount() hands to effect(): read the
\* state of every dependency.
RECURSIVE EffectReadDeps(_, _)
EffectReadDeps(m, i) ==
  IF m.thrown \/ i > Len(m.fx.options.deps) THEN m
  ELSE EffectReadDeps(Call("ReadState", m, <<m.fx.options.deps[i]>>), i + 1)

\* That function on a first run that calls options.fn like any other run.
EffectCallbackNoFirstRun(m, w, isFirstRun) ==
  After(EffectReadDeps(m, 1), LAMBDA m1 :
    IF m1.thrown THEN m1 ELSE Emit(m1, Ev("effect", w)))

\* That function: read the dependencies and, after the first run, call
\* options.fn.
EffectCallback(m, w, isFirstRun) ==
  After(EffectReadDeps(m, 1), LAMBDA m1 :
    IF m1.thrown \/ isFirstRun THEN m1 ELSE Emit(m1, Ev("effect", w)))

\* run: a queued watcher re-runs its function if a value it read changed.
RunEffect(m, c) ==
  After(IF m.lsn[c].flags = "pending" THEN Call("CheckDirty", m, <<"e", c, 1>>) ELSE [m EXCEPT !.b = (m.lsn[c].flags = "dirty")], LAMBDA m1 :
    IF m1.thrown THEN m1
    ELSE IF m1.b THEN IF c \in Cells THEN ListenerEffect([m1 EXCEPT !.lsn[c].flags = "clean"], c)
                      ELSE EffectCallback([m1 EXCEPT !.lsn[c].flags = "clean"], c, FALSE)
    ELSE [m1 EXCEPT !.lsn[c].flags = "clean"])

\* flush: run the queued watchers in the order they were notified.
RECURSIVE FlushEffects(_)
FlushEffects(m) ==
  IF m.thrown \/ m.queue = <<>> THEN [m EXCEPT !.queue = <<>>]
  ELSE FlushEffects(RunEffect([m EXCEPT !.queue = Tail(@)], Head(m.queue)))

\* A write of a signal: nothing happens when the value is the one it holds.
SigWrite(m, s, v) ==
  IF m.sig[s].value = v THEN m
  ELSE After([m EXCEPT !.sig[s].value = v, !.sig[s].dirty = TRUE], LAMBDA m1 :
         IF HasSubs(m1, s) THEN FlushEffects(Propagate(m1, s, 1)) ELSE m1)

\* ------------------------------------------------------------ the registry
\* Set.prototype.add / delete and Map.prototype.set on insertion-ordered
\* collections, kept as sequences without repetition.
SetAdd(s, x) == IF Includes(s, x) THEN s ELSE Append(s, x)
SetDelete(s, x) == SelectSeq(s, LAMBDA y : y # x)

\* The comparator with its two results exchanged.
SortCompareReversed(m, a, b) == IF Includes(m.deps[a], b) THEN 0 - 1 ELSE IF Includes(m.deps[b], a) THEN 1 ELSE 0

\* The comparator registerOnGraph passes to sort.
SortCompare(m, a, b) == IF Includes(m.deps[a], b) THEN 1 ELSE IF Includes(m.deps[b], a) THEN 0 - 1 ELSE 0

Reverse(s) == ArrayFrom([i \in 1..Len(s) |-> s[Len(s) + 1 - i]], Len(s))

\* Array.prototype.sort as the engine runs it on a short array: the leading
\* run is counted (and reversed when strictly descending), the rest is
\* inserted by binary insertion.
RECURSIVE CountRun(_, _, _, _)
CountRun(m, a, idx, desc) ==
  IF idx > Len(a) THEN idx - 1
  ELSE LET order == SortCompare(m, a[idx], a[idx - 1])
       IN IF (desc /\ order >= 0) \/ (~desc /\ order < 0) THEN idx - 1 ELSE CountRun(m, a, idx + 1, desc)

RECURSIVE BinarySearch(_, _, _, _, _)
BinarySearch(m, a, pivot, left, right) ==
  IF left >= right THEN left
  ELSE LET mid == left + ((right - left) \div 2)
       IN IF SortCompare(m, pivot, a[mid]) < 0 THEN BinarySearch(m, a, pivot, left, mid) ELSE BinarySearch(m, a, pivot, mid + 1, right)

RECURSIVE BinaryInsertionSort(_, _, _)
BinaryInsertionSort(m, a, start) ==
  IF start > Len(a) THEN a
  ELSE LET pivot == a[start]
           left == BinarySearch(m, a, pivot, 1, start)
           moved == ArrayFrom([p \in 1..Len(a) |-> IF p < left \/ p > start THEN a[p] ELSE IF p = left THEN pivot ELSE a[p - 1]], Len(a))
       IN BinaryInsertionSort(m, moved, start + 1)

ArraySort(m, a) ==
  IF Len(a) < 2 THEN a
  ELSE LET desc == SortCompare(m, a[2], a[1]) < 0
           run == CountRun(m, a, 3, desc)
           a1 == IF desc THEN Reverse(SubSeq(a, 1, run)) \o SubSeq(a, run + 1, Len(a)) ELSE a
       IN BinaryInsertionSort(m, a1, run + 1)

RECURSIVE SortAll(_, _)
SortAll(m, keys) ==
  IF keys = <<>> THEN m
  ELSE SortAll([m EXCEPT !.storeToDerived[Head(keys)] = ArraySort(m, @)], Tail(keys))

\* That branch without the includes() test: the Derived is pushed again.
RegisterStorePushAlways(m, d, s) ==
  LET m1 == IF s \notin m.s2dHas
            THEN [m EXCEPT !.storeToDerived[s] = <<d>>, !.s2dHas = @ \cup {s}]
            ELSE [m EXCEPT !.storeToDerived[s] = Append(@, d), !.toSort = SetAdd(@, s)]
      m2 == IF d \notin m1.d2sHas THEN [m1 EXCEPT !.derivedToStore[d] = <<>>, !.d2sHas = @ \cup {d}] ELSE m1
  IN [m2 EXCEPT !.derivedToStore[d] = SetAdd(@, s)]

\* registerOnGraph's branch for a dependency that is a Store.
RegisterStore(m, d, s) ==
  LET m1 == IF s \notin m.s2dHas
            THEN [m EXCEPT !.storeToDerived[s] = <<d>>, !.s2dHas = @ \cup {s}]
            ELSE IF ~Includes(m.storeToDerived[s], d)
                 THEN [m EXCEPT !.storeToDerived[s] = Append(@, d), !.toSort = SetAdd(@, s)]
                 ELSE m
      m2 == IF d \notin m1.d2sHas THEN [m1 EXCEPT !.derivedToStore[d] = <<>>, !.d2sHas = @ \cup {d}] ELSE m1
  IN [m2 EXCEPT !.derivedToStore[d] = SetAdd(@, s)]

RECURSIVE RegisterOnGraph(_, _, _)
RECURSIVE RegisterLoop(_, _, _, _)
RegisterLoop(m, d, ds, i) ==
  IF i > Len(ds) THEN m
  ELSE LET dep == ds[i]
       IN IF IsDerived(dep)
          THEN RegisterLoop(RegisterOnGraph(RegisterOnGraph(m, dep, m.deps[dep]), d, m.deps[dep]), d, ds, i + 1)
          ELSE RegisterLoop(RegisterStore(m, d, dep), d, ds, i + 1)

\* Derived.registerOnGraph(deps): toSort is local to each call.
RegisterOnGraph(m, d, ds) ==
  After(RegisterLoop([m EXCEPT !.toSort = <<>>], d, ds, 1), LAMBDA m1 :
    [SortAll(m1, m1.toSort) EXCEPT !.toSort = m.toSort])

\* Array.prototype.splice(start, 1) for start = indexOf(x): with x absent
\* indexOf gives -1, and splice(-1, 1) removes the last element.
SpliceIndexOf(list, x) ==
  IF Includes(list, x) THEN RemoveAt(list, IndexOf(list, x))
  ELSE IF list = <<>> THEN list ELSE RemoveAt(list, Len(list))

\* unregisterFromGraph's branch for a dependency that is a Store.
UnregisterStore(m, d, s) ==
  LET m1 == IF s \in m.s2dHas THEN [m EXCEPT !.storeToDerived[s] = SpliceIndexOf(@, d)] ELSE m
  IN IF d \in m1.d2sHas THEN [m1 EXCEPT !.derivedToStore[d] = SetDelete(@, s)] ELSE m1

\* Derived.unregisterFromGraph(deps)
RECURSIVE UnregisterFromGraph(_, _, _, _)
UnregisterFromGraph(m, d, ds, i) ==
  IF i > Len(ds) THEN m
  ELSE LET dep == ds[i]
       IN IF IsDerived(dep)
          THEN UnregisterFromGraph(UnregisterFromGraph(m, d, m.deps[dep], 1), d, ds, i + 1)
          ELSE UnregisterFromGraph(UnregisterStore(m, d, dep), d, ds, i + 1)

\* ----------------------------------------------------------- the scheduler
\* A map that keeps the first function queued for a Store.
MapSetKeepFirst(q, s, u) == IF \E i \in DOMAIN q : q[i].s = s THEN q ELSE Append(q, [s |-> s, u |-> u])

\* A queue that composes a function updater with the function already
\* queued for the Store.
MapSetComposes(q, s, u) ==
  IF \E i \in DOMAIN q : q[i].s = s
  THEN ArrayFrom([i \in DOMAIN q |-> IF q[i].s = s THEN [s |-> s, u |-> IF u.fn /\ q[i].u.fn THEN [u EXCEPT !.v = (@ + q[i].u.v) % (MaxVal + 1)] ELSE u] ELSE q[i]], Len(q))
  ELSE Append(q, [s |-> s, u |-> u])

\* Map.prototype.set: a key already present keeps its place.
MapSet(q, s, u) ==
  IF \E i \in DOMAIN q : q[i].s = s
  THEN ArrayFrom([i \in DOMAIN q |-> IF q[i].s = s THEN [s |-> s, u |-> u] ELSE q[i]], Len(q))
  ELSE Append(q, [s |-> s, u |-> u])

\* queueSignalUpdate that calls fn at once whatever the batch depth.
QueueSignalUpdateAtOnce(m, s, u) == Call("SetStateUpdate", m, <<s, u>>)

\* queueSignalUpdate(storeId, fn), fn being setState's function for updater u
QueueSignalUpdate(m, s, u) ==
  IF m.batchDepth > 0 THEN [m EXCEPT !.pendingSignalUpdates = MapSet(@, s, u)]
  ELSE Call("SetStateUpdate", m, <<s, u>>)

\* recompute that calls options.onUpdate only.
RecomputeOnUpdateOnly(m, d) ==
  After(Emit(m, Ev("recompute", d)), LAMBDA m1 :
    IF m1.thrown \/ ~m1.onUpdate[d].on THEN m1
    ELSE IF m1.onUpdate[d].s \notin Stores THEN [Emit(m1, Ev("throwOnUpdate", d)) EXCEPT !.thrown = TRUE]
    ELSE QueueSignalUpdate(m1, m1.onUpdate[d].s, m1.onUpdate[d].u))

\* Derived.recompute: call the computed, then options.onUpdate if there is
\* one (here a function that calls setState of a Store, or one that throws).
Recompute(m, d) ==
  After(Call("ReadComputed", Emit(m, Ev("recompute", d)), <<d>>), LAMBDA m1 :
    IF m1.thrown \/ ~m1.onUpdate[d].on THEN m1
    ELSE IF m1.onUpdate[d].s \notin Stores THEN [Emit(m1, Ev("throwOnUpdate", d)) EXCEPT !.thrown = TRUE]
    ELSE QueueSignalUpdate(m1, m1.onUpdate[d].s, m1.onUpdate[d].u))

\* The inner loop of __flush_internals over __derivedToStore.get(derived).
RECURSIVE FlushInternalsStores(_, _, _)
FlushInternalsStores(m, d, j) ==
  IF m.thrown \/ j > Len(m.derivedToStore[d]) THEN m
  ELSE LET st == m.derivedToStore[d][j]
       IN IF st \notin m.s2dHas \/ m.storeToDerived[st] = <<>>
          THEN FlushInternalsStores(m, d, j + 1)
          ELSE FlushInternalsStores(Call("FlushInternals", m, <<st, 1>>), d, j + 1)

\* __flush_internals with each derived added to the tick set before the set
\* is consulted: every derived is then skipped.
RECURSIVE FlushInternalsAddFirst(_, _, _)
FlushInternalsAddFirst(m, s, i) ==
  IF m.thrown \/ i > Len(m.storeToDerived[s]) THEN m
  ELSE FlushInternalsAddFirst([m EXCEPT !.tick = @ \cup {m.storeToDerived[s][i]}], s, i + 1)

\* __flush_internals with derived.recompute() called a second time where
\* __notifyDerivedListeners(derived) is called.
RECURSIVE FlushInternalsTwice(_, _, _)
FlushInternalsTwice(m, s, i) ==
  IF m.thrown \/ i > Len(m.storeToDerived[s]) THEN m
  ELSE LET d == m.storeToDerived[s][i]
       IN IF d \in m.tick THEN FlushInternalsTwice(m, s, i + 1)
          ELSE After(Call("Recompute", Call("Recompute", [m EXCEPT !.tick = @ \cup {d}], <<d>>), <<d>>), LAMBDA m1 :
                 FlushInternalsTwice(IF d \in m1.d2sHas THEN FlushInternalsStores(m1, d, 1) ELSE m1, s, i + 1))

\* __flush_internals(relatedVals), relatedVals being the dependent list of
\* Store s, from its i-th entry on.
RECURSIVE FlushInternals(_, _, _)
FlushInternals(m, s, i) ==
  IF m.thrown \/ i > Len(m.storeToDerived[s]) THEN m
  ELSE LET d == m.storeToDerived[s][i]
       IN IF d \in m.tick THEN FlushInternals(m, s, i + 1)
          ELSE After(Call("Recompute", [m EXCEPT !.tick = @ \cup {d}], <<d>>), LAMBDA m1 :
                 FlushInternals(IF d \in m1.d2sHas THEN FlushInternalsStores(m1, d, 1) ELSE m1, s, i + 1))

\* The first for loop of __flush's while body.
RECURSIVE FlushPrevStates(_, _)
FlushPrevStates(m, stores) ==
  IF stores = <<>> THEN m
  ELSE LET s == Head(stores)
           prevState == IF s \in DOMAIN m.initialBatchValues /\ m.initialBatchValues[s] # Undef THEN m.initialBatchValues[s] ELSE m.storePrev[s]
       IN FlushPrevStates(Emit([m EXCEPT !.storePrev[s] = prevState], Ev("pick", s)), Tail(stores))

\* The second for loop of __flush's while body.
RECURSIVE FlushStores(_, _)
FlushStores(m, stores) ==
  IF m.thrown \/ stores = <<>> THEN m
  ELSE LET s == Head(stores)
       IN IF s \notin m.s2dHas THEN FlushStores(m, Tail(stores))
          ELSE FlushStores(Call("FlushInternals", [m EXCEPT !.tick = @ \cup {s}], <<s, 1>>), Tail(stores))

\* The body of the while loop with __pendingUpdates.clear() left out.
FlushIterationKeepsPending(m) == FlushStores(FlushPrevStates(m, m.pendingUpdates), m.pendingUpdates)

\* The body of the while loop of __flush: take the pending Stores, empty
\* the set, run the two for loops.
FlushIteration(m) == FlushStores(FlushPrevStates([m EXCEPT !.pendingUpdates = <<>>], m.pendingUpdates), m.pendingUpdates)

\* The while loop of __flush.
RECURSIVE FlushLoop(_)
FlushLoop(m) ==
  IF m.thrown \/ m.pendingUpdates = <<>> THEN m
  ELSE FlushLoop(FlushIteration(m))

\* __flush with a catch block that drops the error.
FlushSwallows(m, s) ==
  After([m EXCEPT !.pendingUpdates = SetAdd(@, s), !.initialBatchValues = IF m.batchDepth > 0 /\ s \notin DOMAIN @ THEN (s :> m.storePrev[s]) @@ @ ELSE @], LAMBDA m2 :
    IF m2.batchDepth > 0 \/ m2.isFlushing THEN m2
    ELSE Emit([FlushLoop(Emit([m2 EXCEPT !.isFlushing = TRUE], Ev("flush", s))) EXCEPT !.isFlushing = FALSE, !.tick = {}, !.initialBatchValues = <<>>, !.thrown = FALSE], Ev("flushEnd", s)))

\* __flush with the statements of its finally block placed after the loop:
\* they are not reached when the loop throws.
FlushNoFinally(m, s) ==
  After([m EXCEPT !.pendingUpdates = SetAdd(@, s), !.initialBatchValues = IF m.batchDepth > 0 /\ s \notin DOMAIN @ THEN (s :> m.storePrev[s]) @@ @ ELSE @], LAMBDA m2 :
    IF m2.batchDepth > 0 \/ m2.isFlushing THEN m2
    ELSE After(FlushLoop(Emit([m2 EXCEPT !.isFlushing = TRUE], Ev("flush", s))), LAMBDA m3 :
           IF m3.thrown THEN m3
           ELSE Emit([m3 EXCEPT !.isFlushing = FALSE, !.tick = {}, !.initialBatchValues = <<>>], Ev("flushEnd", s))))

\* __flush returning at once, before anything else, when a flush is in
\* progress.
FlushDropsReentrant(m, s) ==
  IF m.isFlushing THEN m
  ELSE After([m EXCEPT !.pendingUpdates = SetAdd(@, s), !.initialBatchValues = IF m.batchDepth > 0 /\ s \notin DOMAIN @ THEN (s :> m.storePrev[s]) @@ @ ELSE @], LAMBDA m2 :
         IF m2.batchDepth > 0 THEN m2
         ELSE Emit([FlushLoop(Emit([m2 EXCEPT !.isFlushing = TRUE], Ev("flush", s))) EXCEPT !.isFlushing = FALSE, !.tick = {}, !.initialBatchValues = <<>>], Ev("flushEnd", s)))

\* The finally block of __flush.
FlushFinally(m, s) == Emit([m EXCEPT !.isFlushing = FALSE, !.tick = {}, !.initialBatchValues = <<>>], Ev("flushEnd", s))

\* __flush(store)
Flush(m, s) ==
  After([m EXCEPT !.pendingUpdates = SetAdd(@, s), !.initialBatchValues = IF m.batchDepth > 0 /\ s \notin DOMAIN @ THEN (s :> m.storePrev[s]) @@ @ ELSE @], LAMBDA m2 :
    IF m2.batchDepth > 0 \/ m2.isFlushing THEN m2
    ELSE IF m2.stepwise THEN Emit([m2 EXCEPT !.isFlushing = TRUE], Ev("flush", s))
    ELSE Emit([FlushLoop(Emit([m2 EXCEPT !.isFlushing = TRUE], Ev("flush", s))) EXCEPT !.isFlushing = FALSE, !.tick = {}, !.initialBatchValues = <<>>], Ev("flushEnd", s)))

\* ------------------------------------------------------------------ Store
\* An updater is a plain value v, or (fn) the function prev => (prev + v)
\* modulo the number of values.
\* The updater taken for the new state whether it is a function or not.
ApplyUpdaterAsValue(u, prevState) == u.v

\* isUpdaterFunction(updater) ? updater(prevState) : updater, the updater
\* functions being prev => (prev + v) % (MaxVal + 1).
ApplyUpdater(u, prevState) == IF u.fn THEN (prevState + u.v) % (MaxVal + 1) ELSE u.v

\* The custom options.updateFn: previous => updater => the state after
\* the one the default would give; it takes a function for a value.
UpdateFn(prevState, u) == (u.v + 1) % (MaxVal + 1)

\* The state setState assigns.
NextState(m, s, u, prevState) == IF m.storeOptions[s].updateFn THEN UpdateFn(prevState, u) ELSE ApplyUpdater(u, prevState)

\* The function setState hands to queueSignalUpdate.
SetStateUpdate(m, s, u) ==
  After(ReadSignal(m, s), LAMBDA m1 :
    After(SigWrite(Emit([m1 EXCEPT !.storePrev[s] = m1.ret], [Ev("set", s) EXCEPT !.pv = m1.ret, !.r = NextState(m, s, u, m1.ret)]), s, NextState(m, s, u, m1.ret)), LAMBDA m3 :
      IF m3.thrown THEN m3
      ELSE After(IF m3.storeOptions[s].onUpdate THEN Emit(m3, Ev("onUpdate", s)) ELSE m3, LAMBDA m4 :
             IF s \in m4.s2dHas THEN Flush(m4, s) ELSE m4)))

\* The calls the program makes of functions that call one another.
Call(f, m, a) ==
  CASE f = "ReadState" -> ReadState(m, a[1])
    [] f = "ReadComputed" -> ReadComputed(m, a[1])
    [] f = "UpdateComputed" -> UpdateComputed(m, a[1])
    [] f = "CheckDirty" -> CheckDirty(m, a[1], a[2], a[3])
    [] f = "Recompute" -> Recompute(m, a[1])
    [] f = "FlushInternals" -> FlushInternals(m, a[1], a[2])
    [] f = "SetStateUpdate" -> SetStateUpdate(m, a[1], a[2])

\* The for loop over the queued updates at the end of batch().
RECURSIVE ApplyUpdates(_, _)
ApplyUpdates(m, updates) ==
  IF m.thrown \/ updates = <<>> THEN m
  ELSE ApplyUpdates(Call("SetStateUpdate", m, <<Head(updates).s, Head(updates).u>>), Tail(updates))

\* batch() with the decrement placed after the call of fn and outside of
\* finally: an exit by throwing leaves the depth as it was.
BatchFinallyDepthKept(m) ==
  LET m1 == [m EXCEPT !.batchDepth = @ - 1]
  IN IF m1.batchDepth = 0
     THEN After(ApplyUpdates([m1 EXCEPT !.pendingSignalUpdates = <<>>], m1.pendingSignalUpdates), LAMBDA m2 :
            IF m2.thrown THEN [m2 EXCEPT !.batchDepth = m.batchDepth] ELSE m2)
     ELSE m1

\* batch()'s finally block.
BatchFinally(m) ==
  LET m1 == [m EXCEPT !.batchDepth = @ - 1]
  IN IF m1.batchDepth = 0
     THEN ApplyUpdates([m1 EXCEPT !.pendingSignalUpdates = <<>>], m1.pendingSignalUpdates)
     ELSE m1

\* ---------------------------------------------------------------- Derived
\* The constructor: allocate the arrays, create the computed, run it once.
Construct(m, d) ==
  LET blank == ArrayFrom([i \in 1..Len(m.deps[d]) |-> Undef], Len(m.deps[d]))
      m0 == [m EXCEPT !.dv[d] = [cachedState |-> Undef, previousResult |-> Undef, prevState |-> Undef, isFirstRun |-> TRUE, prevDepValsArray |-> blank, currDepValsArray |-> blank],
                      !.comp[d] = [value |-> Undef, flags |-> "dirty", linked |-> FALSE]]
  IN After(Call("ReadComputed", m0, <<d>>), LAMBDA m1 :
       [m1 EXCEPT !.dv[d].cachedState = m1.ret, !.dv[d].prevState = m1.ret])

\* The array checkIfRecalculationNeededDeeply compares currDepVals with: it
\* reads this.lastSeenDepValues before it calls getDepVals(), and what it
\* holds is the array getDepVals() then fills.
LastSeenAtCompare(before, after, d) == LastSeenDepValues(after, d)

\* Derived.checkIfRecalculationNeededDeeply
RECURSIVE CheckIfRecalculationNeededDeeply(_, _)
RECURSIVE CheckDepsDeeply(_, _, _)
CheckDepsDeeply(m, d, i) ==
  IF m.thrown \/ i > Len(m.deps[d]) THEN m
  ELSE IF IsDerived(m.deps[d][i]) THEN CheckDepsDeeply(CheckIfRecalculationNeededDeeply(m, m.deps[d][i]), d, i + 1)
  ELSE CheckDepsDeeply(m, d, i + 1)

CheckIfRecalculationNeededDeeply(m, d) ==
  After(CheckDepsDeeply(m, d, 1), LAMBDA m1 :
    IF m1.thrown THEN m1
    ELSE After(GetDepVals(m1, d), LAMBDA m2 :
           IF m2.thrown THEN m2
           ELSE IF \E i \in DOMAIN m2.props.cd : m2.props.cd[i] # LastSeenAtCompare(m1, m2, d)[i] THEN Call("Recompute", m2, <<d>>)
           ELSE m2))

\* Derived.mount
MountDerived(m, d) == CheckIfRecalculationNeededDeeply(RegisterOnGraph(m, d, m.deps[d]), d)

\* The function mount() returns.
UnmountDerived(m, d) == UnregisterFromGraph(m, d, m.deps[d], 1)

\* subscribe(listener) whose watcher calls the listener on its first run too.
SubscribeCellFirstRunCalls(m, c) ==
  After(Call("ReadState", m, <<c>>), LAMBDA m1 :
    IF m1.thrown THEN m1
    ELSE After(Call("ReadState", m1, <<c>>), LAMBDA m2 :
           IF m2.thrown THEN m2
           ELSE [Emit(m2, [Ev("listener", c) EXCEPT !.pv = m1.ret, !.r = m2.ret]) EXCEPT !.lsn[c] = [on |-> TRUE, flags |-> "clean", prevVal |-> m2.ret]]))

\* subscribe(listener) of a Store or a Derived: read state, then create the
\* watcher, whose first run only reads state.
SubscribeCell(m, c) ==
  After(Call("ReadState", m, <<c>>), LAMBDA m1 :
    IF m1.thrown THEN m1
    ELSE After(Call("ReadState", m1, <<c>>), LAMBDA m2 :
           IF m2.thrown THEN m2
           ELSE [m2 EXCEPT !.lsn[c] = [on |-> TRUE, flags |-> "clean", prevVal |-> m2.ret]]))

\* unwatched: a computed that lost its last reader drops its links and is
\* dirty; the computeds it alone was reading follow.
RECURSIVE Unwatched(_, _)
RECURSIVE UnlinkDeps(_, _, _)
UnlinkDeps(m, d, i) ==
  IF i > Len(m.deps[d]) THEN m
  ELSE LET dep == m.deps[d][i]
       IN IF IsDerived(dep) /\ m.comp[dep].linked /\ ~HasSubs(m, dep) THEN UnlinkDeps(Unwatched(m, dep), d, i + 1)
          ELSE UnlinkDeps(m, d, i + 1)

Unwatched(m, d) == UnlinkDeps([m EXCEPT !.comp[d].flags = "dirty", !.comp[d].linked = FALSE], d, 1)

\* The function subscribe() returns: stop the watcher.
UnsubscribeCell(m, c) ==
  LET m1 == [m EXCEPT !.lsn[c].on = FALSE, !.lsn[c].flags = "clean"]
  IN IF IsDerived(c) /\ m1.comp[c].linked /\ ~HasSubs(m1, c) THEN Unwatched(m1, c) ELSE m1

\* ---------------------------------------------------------------- Effect
\* An Effect with no dependency that was never mounted: options, the field
\* _stopEffect, how many watchers mount() has created, and the watchers
\* whose unmount function (the one their mount() returned) has been called.
NoEffect == [options |-> [deps |-> <<>>], stopEffect |-> "null", made |-> 0, called |-> {}]

\* new Effect(opts): options.fn is called when opts.eager is truthy.
ConstructEffect(m, opts) ==
  LET m1 == [m EXCEPT !.fx = [NoEffect EXCEPT !.options = opts]]
  IN IF "eager" \in DOMAIN opts /\ opts.eager THEN Emit(m1, Ev("effect", "new")) ELSE m1

\* The function effectScope() returns: stop the watcher created in the
\* scope; the computeds it alone was reading lose their links.
RECURSIVE StopDeps(_, _)
StopDeps(m, i) ==
  IF i > Len(m.fx.options.deps) THEN m
  ELSE LET dep == m.fx.options.deps[i]
       IN IF IsDerived(dep) /\ m.comp[dep].linked /\ ~HasSubs(m, dep) THEN StopDeps(Unwatched(m, dep), i + 1)
          ELSE StopDeps(m, i + 1)

StopEffect(m, w) == StopDeps([m EXCEPT !.lsn[w].on = FALSE, !.lsn[w].flags = "clean"], 1)

\* effect.mount(): create a watcher, which runs its function once, and keep
\* the function that stops it in _stopEffect.
MountEffect(m) ==
  LET w == WatcherOrder[m.fx.made + 1]
  IN After(EffectCallback(m, w, TRUE), LAMBDA m1 :
       IF m1.thrown THEN m1
       ELSE [m1 EXCEPT !.lsn[w] = [on |-> TRUE, flags |-> "clean", prevVal |-> Undef], !.fx.stopEffect = w, !.fx.made = @ + 1])

\* The function mount() returns: this._stopEffect?.(); this._stopEffect =
\* null.  w is the watcher the mount() that returned it had created; the
\* function does not use it.
UnmountEffect(m, w) ==
  IF m.fx.stopEffect # "null" THEN [StopEffect(m, m.fx.stopEffect) EXCEPT !.fx.stopEffect = "null", !.fx.called = @ \cup {w}]
  ELSE [m EXCEPT !.fx.called = @ \cup {w}]

\* ------------------------------------------------------------ construction
\* A scenario is what the application constructs: the dependency list, the
\* compute function and the onUpdate option of B, C and D (in that order).
NoUpdate == [on |-> FALSE, s |-> "A", u |-> [fn |-> FALSE, v |-> 0]]
Writes(s, fn, v) == [on |-> TRUE, s |-> s, u |-> [fn |-> fn, v |-> v]]
\* An onUpdate callback that throws.
Throwing == [on |-> TRUE, s |-> "-", u |-> [fn |-> FALSE, v |-> 0]]
Quiet == [d \in Deriveds |-> NoUpdate]

Scenario(dB, dC, dD, kB, kC, kD, up) == [deps |-> [B |-> dB, C |-> dC, D |-> dD], kind |-> [B |-> kB, C |-> kC, D |-> kD], onUpdate |-> up]

\* A -> {B, C} -> D
Diamond(kB, kC) == Scenario(<<"A">>, <<"A">>, <<"B", "C">>, kB, kC, "sum", Quiet)
Diamonds == {Diamond("sum", "nz"), Diamond("nz", "sum"), Diamond("sum", "sum")}
\* B = f(A), C = g(A, B), with D a sibling over A
Triangles == {Scenario(<<"A">>, dC, <<"A">>, "sum", "sum", "nz", Quiet) : dC \in {<<"A", "B">>, <<"B", "A">>}}
\* A -> B -> C -> D
Chain == Scenario(<<"A">>, <<"B">>, <<"C">>, "sum", "nz", "sum", Quiet)
\* D over both Stores
FanIn == Scenario(<<"A">>, <<"S">>, <<"A", "S">>, "sum", "sum", "sum", Quiet)
\* B's onUpdate writes S, which C and D read
Reentrant == {Scenario(<<"A">>, <<"S">>, dD, "sum", "sum", "sum", [Quiet EXCEPT !["B"] = Writes("S", TRUE, 1)]) : dD \in {<<"B", "C">>, <<"S", "A">>}}
\* D's onUpdate writes A, which D reads through B
Feedback == Scenario(<<"A">>, <<"A">>, <<"B", "C">>, "sum", "nz", "sum", [Quiet EXCEPT !["D"] = Writes("A", TRUE, 1)])

\* Compute functions and onUpdate callbacks that throw: B throws for the
\* largest A (chain), C does (diamond), D over both Stores does, C's
\* onUpdate does (diamond).
Throwers ==
  { Scenario(<<"A">>, <<"B">>, <<"C">>, "strict", "sum", "sum", Quiet),
    Scenario(<<"A">>, <<"A">>, <<"B", "C">>, "sum", "strict", "sum", Quiet),
    Scenario(<<"A">>, <<"S">>, <<"A", "S">>, "sum", "sum", "strict", Quiet),
    Scenario(<<"A">>, <<"A">>, <<"B", "C">>, "sum", "sum", "sum", [Quiet EXCEPT !["C"] = Throwing]) }

\* B's onUpdate writes S, which D reads; C, visited after B in the flush
\* of A, throws for the largest A.
WriterThrower == Scenario(<<"A">>, <<"A">>, <<"S">>, "sum", "strict", "sum", [Quiet EXCEPT !["B"] = Writes("S", TRUE, 1)])

\* new Store(initialState) without options, and the options a Store may be
\* constructed with.
NoOptions == [updateFn |-> FALSE, onUpdate |-> FALSE]
StoreOptions == [updateFn : BOOLEAN, onUpdate : BOOLEAN]

\* The options an Effect is constructed with: eager true, false or absent,
\* over a Store, over a Derived, over a Store and a Derived that reads it.
EffectOptions ==
  LET lists == {<<"A">>, <<"D">>, <<"A", "B">>}
  IN [deps : lists, eager : BOOLEAN] \cup [deps : lists]

\* The state once the two Stores (initial state 0) exist and nothing else.
StoresOnly(sc) ==
  [deps |-> sc.deps, kind |-> sc.kind, onUpdate |-> sc.onUpdate,
   sig |-> [s \in Stores |-> [value |-> 0, previousValue |-> 0, dirty |-> FALSE]],
   storePrev |-> [s \in Stores |-> 0],
   storeOptions |-> [s \in Stores |-> NoOptions],
   comp |-> [d \in Deriveds |-> [value |-> Undef, flags |-> "dirty", linked |-> FALSE]],
   dv |-> [d \in Deriveds |-> [cachedState |-> Undef, previousResult |-> Undef, prevState |-> Undef, isFirstRun |-> TRUE, prevDepValsArray |-> <<>>, currDepValsArray |-> <<>>]],
   lsn |-> [c \in Cells \cup Watchers |-> [on |-> FALSE, flags |-> "clean", prevVal |-> Undef]],
   fx |-> NoEffect,
   storeToDerived |-> [s \in Stores |-> <<>>], s2dHas |-> {},
   derivedToStore |-> [d \in Deriveds |-> <<>>], d2sHas |-> {},
   tick |-> {}, isFlushing |-> FALSE, batchDepth |-> 0, pendingUpdates |-> <<>>,
   initialBatchValues |-> <<>>, pendingSignalUpdates |-> <<>>,
   ncalls |-> [d \in Deriveds |-> 0], lastRet |-> [d \in Deriveds |-> Undef], lastCd |-> [d \in Deriveds |-> <<>>],
   log |-> <<>>, queue |-> <<>>, props |-> [pv |-> Undef, pdDef |-> FALSE, pd |-> <<>>, cd |-> <<>>],
   toSort |-> <<>>, ret |-> Undef, b |-> FALSE, thrown |-> FALSE]

RECURSIVE ConstructAll(_, _)
ConstructAll(m, ds) == IF ds = <<>> THEN m ELSE ConstructAll(Construct(m, Head(ds)), Tail(ds))

NoOp == [op |-> "new", c |-> "-", v |-> 0, fn |-> FALSE, depth |-> 0, pass |-> 0]
NoBatch == [s \in Stores |-> Undef]
NoWrites == [s \in Stores |-> [n |-> 0, last |-> Undef, u |-> [fn |-> FALSE, v |-> 0]]]

\* The state after the application has constructed a scenario, m being the
\* machine when the last constructor has returned.
InitFrom(m) ==
  /\ deps = m.deps
  /\ kind = m.kind
  /\ onUpdate = m.onUpdate
  /\ sig = m.sig
  /\ storePrev = m.storePrev
  /\ storeOptions = m.storeOptions
  /\ comp = m.comp
  /\ dv = m.dv
  /\ lsn = m.lsn
  /\ fx = m.fx
  /\ storeToDerived = m.storeToDerived
  /\ s2dHas = m.s2dHas
  /\ derivedToStore = m.derivedToStore
  /\ d2sHas = m.d2sHas
  /\ depsThatHaveWrittenThisTick = m.tick
  /\ isFlushing = m.isFlushing
  /\ batchDepth = m.batchDepth
  /\ pendingUpdates = m.pendingUpdates
  /\ initialBatchValues = m.initialBatchValues
  /\ pendingSignalUpdates = m.pendingSignalUpdates
  /\ handles = [d \in Deriveds |-> [live |-> 0, spent |-> FALSE]]
  /\ calls = 0
  /\ atBatchStart = NoBatch
  /\ batchWrites = NoWrites
  /\ ncalls = m.ncalls
  /\ lastRet = m.lastRet
  /\ lastCd = m.lastCd
  /\ log = m.log
  /\ threw = m.thrown
  /\ lastOp = NoOp

InitWith(scenarios) == \E sc \in scenarios : InitFrom(ConstructAll(StoresOnly(sc), DerivedOrder))

Init == \E sc \in Diamonds \cup Triangles \cup {Chain, FanIn, Feedback} \cup Reentrant \cup Throwers, opts \in EffectOptions : InitFrom(ConstructEffect(ConstructAll(StoresOnly(sc), DerivedOrder), opts))

\* ------------------------------------------------------------------ actions
Updaters == [fn : BOOLEAN, v : Val]
Plain == {u \in Updaters : ~u.fn}

\* The Stores some Derived was constructed over.
Used == {s \in Stores : \E d \in Deriveds : Includes(deps[d], s)}

\* What is remembered of the last batch is dropped by the next call made
\* outside of a batch.
OutsideBatch ==
  /\ atBatchStart' = IF batchDepth = 0 THEN NoBatch ELSE atBatchStart
  /\ batchWrites' = IF batchDepth = 0 THEN NoWrites ELSE batchWrites

\* store.setState(updater)
SetState(s, u) ==
  /\ calls < MaxCalls
  /\ Commit(QueueSignalUpdate(Machine, s, u))
  /\ lastOp' = [op |-> "setState", c |-> s, v |-> u.v, fn |-> u.fn, depth |-> batchDepth, pass |-> 0]
  /\ atBatchStart' = IF batchDepth = 0 THEN NoBatch ELSE atBatchStart
  /\ batchWrites' = IF batchDepth = 0 THEN NoWrites ELSE [batchWrites EXCEPT ![s] = [n |-> IF @.n < 2 THEN @.n + 1 ELSE @.n, last |-> NextState(Machine, s, u, sig[s].value), u |-> u]]
  /\ UNCHANGED handles

\* batch(fn) up to the call of fn
BatchEnter ==
  /\ calls < MaxCalls
  /\ batchDepth < MaxBatchDepth
  /\ Commit([Machine EXCEPT !.batchDepth = @ + 1])
  /\ lastOp' = [NoOp EXCEPT !.op = "batchEnter", !.depth = batchDepth]
  /\ atBatchStart' = IF batchDepth = 0 THEN [s \in Stores |-> sig[s].value] ELSE atBatchStart
  /\ batchWrites' = IF batchDepth = 0 THEN NoWrites ELSE batchWrites
  /\ UNCHANGED handles

\* batch(fn) from the return of fn
BatchExit ==
  /\ batchDepth > 0
  /\ Commit(BatchFinally(Machine))
  /\ lastOp' = [NoOp EXCEPT !.op = "batchExit", !.depth = batchDepth]
  /\ UNCHANGED <<handles, atBatchStart, batchWrites>>

\* derived.mount()
Mount(d) ==
  /\ calls < MaxCalls
  /\ handles[d].live < MaxMounts
  /\ Commit(MountDerived(Machine, d))
  /\ handles' = [handles EXCEPT ![d].live = @ + 1]
  /\ lastOp' = [NoOp EXCEPT !.op = "mount", !.c = d, !.depth = batchDepth]
  /\ OutsideBatch

\* The first call of a function returned by derived.mount()
Unmount(d) ==
  /\ calls < MaxCalls
  /\ handles[d].live > 0
  /\ Commit(UnmountDerived(Machine, d))
  /\ handles' = [handles EXCEPT ![d].live = @ - 1, ![d].spent = TRUE]
  /\ lastOp' = [NoOp EXCEPT !.op = "unmount", !.c = d, !.depth = batchDepth]
  /\ OutsideBatch

\* A further call of a function returned by derived.mount()
UnmountAgain(d) ==
  /\ calls < MaxCalls
  /\ handles[d].spent
  /\ Commit(UnmountDerived(Machine, d))
  /\ lastOp' = [NoOp EXCEPT !.op = "unmountAgain", !.c = d, !.depth = batchDepth]
  /\ OutsideBatch
  /\ UNCHANGED handles

\* subscribe(listener) of a Store or a Derived
Subscribe(c) ==
  /\ calls < MaxCalls
  /\ ~lsn[c].on
  /\ Commit(SubscribeCell(Machine, c))
  /\ lastOp' = [NoOp EXCEPT !.op = "subscribe", !.c = c, !.depth = batchDepth]
  /\ OutsideBatch
  /\ UNCHANGED handles

\* The function returned by subscribe
Unsubscribe(c) ==
  /\ calls < MaxCalls
  /\ lsn[c].on
  /\ Commit(UnsubscribeCell(Machine, c))
  /\ lastOp' = [NoOp EXCEPT !.op = "unsubscribe", !.c = c, !.depth = batchDepth]
  /\ OutsideBatch
  /\ UNCHANGED handles

\* A read of derived.state by the application
ReadDerived(d) ==
  /\ calls < MaxCalls
  /\ Commit(Call("ReadComputed", Machine, <<d>>))
  /\ lastOp' = [NoOp EXCEPT !.op = "read", !.c = d, !.depth = batchDepth]
  /\ OutsideBatch
  /\ UNCHANGED handles

\* effect.mount()
EffectMount ==
  /\ calls < MaxCalls
  /\ fx.made < Len(WatcherOrder)
  /\ Commit(MountEffect(Machine))
  /\ lastOp' = [NoOp EXCEPT !.op = "effectMount", !.depth = batchDepth]
  /\ OutsideBatch
  /\ UNCHANGED handles

\* A call (the first or a later one) of the function the mount() that
\* created watcher w returned
EffectUnmount(w) ==
  /\ calls < MaxCalls
  /\ \E i \in 1..fx.made : WatcherOrder[i] = w
  /\ Commit(UnmountEffect(Machine, w))
  /\ lastOp' = [NoOp EXCEPT !.op = "effectUnmount", !.c = w, !.depth = batchDepth]
  /\ OutsideBatch
  /\ UNCHANGED handles

Next ==
  \/ \E s \in Used, u \in Updaters : SetState(s, u)
  \/ BatchEnter
  \/ BatchExit
  \/ \E d \in Deriveds : Mount(d)
  \/ \E d \in Deriveds : Unmount(d)
  \/ \E d \in Deriveds : UnmountAgain(d)
  \/ \E c \in Cells : Subscribe(c)
  \/ \E c \in Cells : Unsubscribe(c)
  \/ \E d \in Deriveds : ReadDerived(d)
  \/ EffectMount
  \/ \E w \in Watchers : EffectUnmount(w)

Spec == Init /\ [][Next]_vars

\* ------------------------------------------------- focused specifications
\* The graph: writes, mounts and unmounts, each unmount function called once.
InitMount == InitWith(Diamonds \cup Triangles \cup {Chain, FanIn})

NextMount ==
  \/ \E s \in Used, u \in Plain : SetState(s, u)
  \/ \E d \in Deriveds : Mount(d)
  \/ \E d \in Deriveds : Unmount(d)

SpecMount == InitMount /\ [][NextMount]_vars

\* The registry: as above, and unmount functions may be called again.
InitGraph == InitWith(Diamonds \cup Triangles \cup {Chain, FanIn})

NextGraph ==
  \/ \E s \in Used, u \in Plain : SetState(s, u)
  \/ \E d \in Deriveds : Mount(d)
  \/ \E d \in Deriveds : Unmount(d)
  \/ \E d \in Deriveds : UnmountAgain(d)

SpecGraph == InitGraph /\ [][NextGraph]_vars

\* Flushes: every shape of graph, onUpdate callbacks that write during a
\* flush, batches that apply several writes at their exit.
InitFlush == InitWith(Reentrant \cup {Feedback})

NextFlush ==
  \/ \E s \in Used, u \in Plain : SetState(s, u)
  \/ BatchEnter
  \/ BatchExit
  \/ \E d \in Deriveds : Mount(d)
  \/ \E d \in Deriveds : Unmount(d)

SpecFlush == InitFlush /\ [][NextFlush]_vars

\* Batches over a mounted graph.
InitBatch == InitWith({Diamond("sum", "nz"), FanIn, Chain})

NextBatch ==
  \/ \E s \in Used, u \in Updaters : SetState(s, u)
  \/ BatchEnter
  \/ BatchExit
  \/ \E d \in Deriveds : Mount(d)

SpecBatch == InitBatch /\ [][NextBatch]_vars

\* Every way a compute function gets invoked: a flush, a read, a listener.
InitInvoke == InitWith({Diamond("sum", "nz"), Chain, Feedback})

NextInvoke ==
  \/ \E s \in Used, u \in Plain : SetState(s, u)
  \/ BatchEnter
  \/ BatchExit
  \/ \E d \in Deriveds : Mount(d)
  \/ \E d \in Deriveds : Subscribe(d)
  \/ \E d \in Deriveds : Unsubscribe(d)
  \/ \E d \in Deriveds : ReadDerived(d)

SpecInvoke == InitInvoke /\ [][NextInvoke]_vars

\* Writes: Store A constructed with and without updateFn and onUpdate,
\* written with values and with functions.
InitWrite == \E sc \in {Diamond("sum", "nz"), FanIn, Chain}, o \in StoreOptions : InitFrom(ConstructAll([StoresOnly(sc) EXCEPT !.storeOptions["A"] = o], DerivedOrder))

NextWrite ==
  \/ \E s \in Used, u \in Updaters : SetState(s, u)
  \/ \E d \in {"C", "D"} : Mount(d)
  \/ Subscribe("A")

SpecWrite == InitWrite /\ [][NextWrite]_vars

\* The Effect: constructed after the cells of a diamond or a chain, then
\* mounted and unmounted while Store A is written and Deriveds are mounted.
InitEffect == \E sc \in {Diamond("sum", "nz"), Chain}, opts \in EffectOptions : InitFrom(ConstructEffect(ConstructAll(StoresOnly(sc), DerivedOrder), opts))

NextEffect ==
  \/ \E u \in Plain : SetState("A", u)
  \/ EffectMount
  \/ \E w \in Watchers : EffectUnmount(w)
  \/ \E d \in {"B", "D"} : Mount(d)

SpecEffect == InitEffect /\ [][NextEffect]_vars

\* Listeners and batches: Stores and Deriveds with listeners, written inside
\* and outside of batches.
InitListen == InitWith({FanIn, Diamond("sum", "nz")})

NextListen ==
  \/ \E s \in Used, u \in Plain : SetState(s, u)
  \/ BatchEnter
  \/ BatchExit
  \/ \E c \in {"A", "S", "D"} : Subscribe(c)
  \/ Mount("D")

SpecListen == InitListen /\ [][NextListen]_vars

\* Errors: compute functions and onUpdate callbacks that throw during a
\* flush, a mount or a batch exit.
InitThrow == InitWith(Throwers)

NextThrow ==
  \/ \E s \in Used, u \in Plain : SetState(s, u)
  \/ BatchEnter
  \/ BatchExit
  \/ \E d \in Deriveds : Mount(d)

SpecThrow == InitThrow /\ [][NextThrow]_vars

\* Errors in a flush during which an onUpdate callback has written a
\* Store.
InitIdle == InitWith(Throwers \cup {WriterThrower})

NextIdle ==
  \/ \E s \in Used, u \in Plain : SetState(s, u)
  \/ BatchEnter
  \/ BatchExit
  \/ \E d \in Deriveds : Mount(d)

SpecIdle == InitIdle /\ [][NextIdle]_vars

\* ------------------------------------------------------------------ claims
\* What the last call did, read off its log.
Count(t, c) == Cardinality({i \in DOMAIN log : log[i].t = t /\ log[i].c = c})
\* The last call was s.setState outside of any batch.
Wrote(s) == lastOp.op = "setState" /\ lastOp.c = s /\ lastOp.depth = 0
\* ... and it changed the state of s.
WroteChange(s) == Wrote(s) /\ \E i \in DOMAIN log : log[i].t = "set" /\ log[i].c = s /\ log[i].r # log[i].pv
\* The value of Derived d, a function of Store s alone, is not the same for
\* the state s had before the last call and the state it has now.
Moved(d, s) == \E i \in DOMAIN log : log[i].t = "set" /\ log[i].c = s /\ Compute(kind[d], [cd |-> <<log[i].r>>]) # Compute(kind[d], [cd |-> <<log[i].pv>>])
IsDiamond == deps = [B |-> <<"A">>, C |-> <<"A">>, D |-> <<"B", "C">>]
\* mount() was called and the function it returned has not been.
Mounted(d) == handles[d].live > 0
\* No function returned by mount() has been called yet.
NeverUnmounted == \A d \in Deriveds : ~handles[d].spent
AllMounted == NeverUnmounted /\ \A d \in Deriveds : Mounted(d)

\* C1: in a diamond A -> {B, C} -> D with B, C and D mounted, one setState
\* outside a batch that changes A invokes D's compute function exactly once
\* before it returns when B's value, C's value or both changed, and never
\* more than once.
C1_DiamondOnce ==
  IsDiamond /\ AllMounted /\ WroteChange("A") =>
    /\ Count("fn", "D") <= 1
    /\ (Moved("B", "A") \/ Moved("C", "A")) => Count("fn", "D") = 1

\* C1 witness: both B and C changed, and D's function ran once.
C1_Witness == IsDiamond /\ AllMounted /\ WroteChange("A") /\ Moved("B", "A") /\ Moved("C", "A") /\ Count("fn", "D") = 1
\* Only B changed; only C changed.
C1_WitnessOnlyB == IsDiamond /\ AllMounted /\ WroteChange("A") /\ Moved("B", "A") /\ ~Moved("C", "A") /\ Count("fn", "D") = 1
C1_WitnessOnlyC == IsDiamond /\ AllMounted /\ WroteChange("A") /\ ~Moved("B", "A") /\ Moved("C", "A") /\ Count("fn", "D") = 1


\* C2: within a single flush (one run of __flush from the moment it sets
\* __isFlushing to its finally block, the Stores queued re-entrantly during
\* it included) recompute() is called at most once on any one Derived: two
\* recompute() calls on the same Derived are separated by the end of a flush.
C2_OncePerFlush ==
  \A i, j \in DOMAIN log :
    (i < j /\ log[i].t = "recompute" /\ log[j].t = "recompute" /\ log[i].c = log[j].c) =>
      \E k \in (i + 1)..(j - 1) : log[k].t = "flushEnd"

\* A flush in which a Derived was recomputed, a Store whose dependent list
\* holds that Derived was then written by an onUpdate callback, and the flush
\* went on to walk that Store's dependents.
C2_Witness ==
  \E i, j, k, e \in DOMAIN log :
    /\ i < j /\ j < k /\ k < e
    /\ log[i].t = "flush" /\ log[j].t = "recompute" /\ log[k].t = "set" /\ log[e].t = "flushEnd"
    /\ \A x \in i..(e - 1) : log[x].t # "flushEnd"
    /\ Includes(storeToDerived[log[k].c], log[j].c)

\* Derived or Store c is reached from Derived d by walking dependency lists.
RECURSIVE DependsOn(_, _)
DependsOn(d, c) == \E i \in DOMAIN deps[d] : deps[d][i] = c \/ (IsDerived(deps[d][i]) /\ DependsOn(deps[d][i], c))

\* C3: after any sequence of mount() and unmount calls, a non-batched
\* setState on Store s calls recompute() exactly once on every Derived that
\* is mounted and depends on s directly or transitively.
C3_RecomputeEveryMounted ==
  \A s \in Stores : Wrote(s) =>
    \A d \in Deriveds : (Mounted(d) /\ DependsOn(d, s)) => Count("recompute", d) = 1

\* The last call was the exit of the outermost batch.
BatchApplied == lastOp.op = "batchExit" /\ lastOp.depth = 1
\* Entry x of the log was made during the flush that the update of Store s
\* started.
InFlushOf(s, x) == \E i \in 1..(x - 1) : log[i].t = "flush" /\ log[i].c = s /\ \A k \in i..(x - 1) : log[k].t # "flushEnd"
RecomputesInFlushOf(s, d) == Cardinality({x \in DOMAIN log : log[x].t = "recompute" /\ log[x].c = d /\ InFlushOf(s, x)})

IsTriangle == deps["B"] = <<"A">> /\ deps["C"] \in {<<"A", "B">>, <<"B", "A">>}
\* Where the last call's log records recompute() of Derived d (0: nowhere).
RecomputedAt(d) == IF \E i \in DOMAIN log : log[i].t = "recompute" /\ log[i].c = d THEN CHOOSE i \in DOMAIN log : log[i].t = "recompute" /\ log[i].c = d ELSE 0
\* What B's compute function gives for the present state of A.
FreshB == Compute(kind["B"], [cd |-> <<sig["A"].value>>])

C7_NoResidue ==
  [][\A d \in Deriveds :
       (lastOp.op = "mount" /\ lastOp.c = d /\ lastOp'.op = "unmount" /\ lastOp'.c = d) =>
         /\ \A s \in Stores : ~Includes(storeToDerived'[s], d)
         /\ d \notin d2sHas']_vars

\* C8: a second call of a Derived's unmount function is a no-op: both
\* registry tables are as they were, and in particular no other Derived has
\* left any Store's dependent list.
C8_SecondUnmountNoOp ==
  [][lastOp'.op = "unmountAgain" => (storeToDerived' = storeToDerived /\ derivedToStore' = derivedToStore /\ s2dHas' = s2dHas /\ d2sHas' = d2sHas)]_vars

\* The entries of the last call's log that are invocations of a compute
\* function.
FnEvents == {i \in DOMAIN log : log[i].t = "fn"}

\* C9: a compute function is passed prevDepVals = undefined and prevVal =
\* undefined on its first invocation, and on every later invocation a
\* prevDepVals array with one value per dependency, also when those values
\* are falsy (0).
C9_PrevDepValsPresence ==
  \A i \in FnEvents :
    IF log[i].n = 1 THEN ~log[i].pdDef /\ log[i].pv = Undef
    ELSE log[i].pdDef /\ Len(log[i].pd) = Len(deps[log[i].c]) /\ \A j \in DOMAIN log[i].pd : log[i].pd[j] \in Val

\* A later invocation whose previous and current dependency values are all 0.
C9_Witness == \E i \in FnEvents : log[i].n = 2 /\ log[i].pdDef /\ (\A j \in DOMAIN log[i].pd : log[i].pd[j] = 0) /\ (\A j \in DOMAIN log[i].cd : log[i].cd[j] = 0)

\* The constructor's invocation of each compute function.
C9_WitnessFirst == \A d \in Deriveds : \E i \in FnEvents : log[i].c = d /\ log[i].n = 1 /\ ~log[i].pdDef

\* C10: the prevVal passed to a compute function on its n-th invocation
\* (n >= 2) is the value its (n-1)-th invocation returned, whatever made it
\* run: recompute() in a flush, a read of state, a listener's watcher, or
\* another Derived's compute function reading it.
C10_PrevValIsLastResult == \A i \in FnEvents : log[i].n >= 2 => log[i].pv = log[i].lr

\* One call in which two Deriveds were recomputed, one of them read by the
\* other, with previous results that differ from the new ones.
C10_Witness ==
  \E i, j \in FnEvents :
    /\ log[i].n >= 2 /\ log[j].n >= 2 /\ log[i].c # log[j].c
    /\ DependsOn(log[j].c, log[i].c)
    /\ log[i].pv # log[i].r /\ log[j].pv # log[j].r /\ log[i].pv # Undef

\* Store A -> Derived B -> Derived C (-> Derived D).
IsChain == deps = [B |-> <<"A">>, C |-> <<"B">>, D |-> <<"C">>]
\* The value of B, a function of A alone, for the state v of A.
BUnder(v) == Compute(kind["B"], [cd |-> <<v>>])

\* C11: in a chain A -> B -> C, whenever a non-batched write takes A from v0
\* to another value v1, each invocation of C's compute function made by that write is
\* passed, for B, the value B computed under v0 as the previous value and
\* the value B computed under v1 as the current value.
C11_ChainPrevDepVals ==
  (IsChain /\ WroteChange("A")) =>
    \A i \in FnEvents : log[i].c = "C" =>
      \A k \in DOMAIN log : (log[k].t = "set" /\ log[k].c = "A") =>
        /\ log[i].pdDef
        /\ log[i].pd = <<BUnder(log[k].pv)>>
        /\ log[i].cd = <<BUnder(log[k].r)>>

\* A write of A that is not the first one to change it, and that made C's
\* compute function run with a previous value of B other than the current.
C11_Witness ==
  /\ IsChain /\ WroteChange("A")
  /\ \E k \in DOMAIN log : log[k].t = "set" /\ log[k].c = "A" /\ log[k].pv # 0
  /\ \E i \in FnEvents : log[i].c = "C" /\ log[i].pdDef /\ log[i].pd # log[i].cd

\* The value Derived d has when Store A holds a and Store S its present
\* state: each compute function applied to its dependencies' values.
RECURSIVE ValueUnder(_, _)
ValueUnder(c, a) ==
  IF c = "A" THEN a
  ELSE IF c = "S" THEN sig["S"].value
  ELSE Compute(kind[c], [cd |-> ArrayFrom([i \in DOMAIN deps[c] |-> ValueUnder(deps[c][i], a)], Len(deps[c]))])
\* The writes of Store A in the last call's log that changed the value of d.
ChangingSets(d) == {k \in DOMAIN log : log[k].t = "set" /\ log[k].c = "A" /\ ValueUnder(d, log[k].r) # ValueUnder(d, log[k].pv)}

\* C12: a listener subscribed to a Derived is called once for each Store
\* write, made outside of a batch, that changes the Derived's value, and not
\* for a write that leaves the value as it was, however many paths lead from
\* the Store to the Derived and whether or not the Derived is mounted; each
\* call is passed two different values; subscribe itself does not call it.
C12_ListenerOncePerChange ==
  \A d \in Deriveds :
    /\ (Wrote("A") /\ lsn[d].on) =>
         /\ Count("listener", d) = Cardinality(ChangingSets(d))
         /\ \A i \in DOMAIN log : (log[i].t = "listener" /\ log[i].c = d) => log[i].r # log[i].pv
    /\ lastOp.op = "subscribe" => Count("listener", d) = 0

\* In the diamond, with D mounted and listened to, a write moved B and C and
\* D's listener was called once.
C12_Witness == IsDiamond /\ Mounted("D") /\ lsn["D"].on /\ WroteChange("A") /\ Moved("B", "A") /\ Moved("C", "A") /\ Count("listener", "D") = 1

\* A write changed A and B but not the listened Derived: no call.
C12_WitnessUnchanged == \E d \in Deriveds : lsn[d].on /\ WroteChange("A") /\ Moved("B", "A") /\ ChangingSets(d) = {} /\ Count("listener", d) = 0

\* Derived d is mounted, has no listener, and the last call was a setState
\* of Store A outside of any batch.
MountedOnlyWrite(d) == Mounted(d) /\ ~lsn[d].on /\ DependsOn(d, "A") /\ Wrote("A")
\* The cache of d holds its value for the present Store states, and the
\* runtime knows it: a read would compute nothing.
CacheCurrent(d) == comp[d].value = ValueUnder(d, sig["A"].value) /\ comp[d].flags = "clean" /\ dv[d].cachedState = comp[d].value
\* What a read of d.state would return now.
ReadNow(d) == Call("ReadComputed", Machine, <<d>>).ret

\* The same demanded of every setState, those included during which an
\* onUpdate callback writes the Store again. This does not hold: the second
\* write finds every dependent visited and recomputes nothing, so the cache
\* is stale when setState returns, until the next read. The specification
\* declares writes made during a flush unspecified.
UpToDateOnEveryReturn ==
  \A d \in Deriveds : MountedOnlyWrite(d) => (CacheCurrent(d) /\ (ChangingSets(d) # {} => Count("fn", d) >= 1))

InFlush(x) == \E i \in 1..(x - 1) : log[i].t = "flush" /\ \A k \in i..(x - 1) : log[k].t # "flushEnd"

\* C14: when a compute function throws during a flush, the setState or
\* batch call that started the flush ends by throwing, nothing runs after
\* the throw but the finally block of __flush (no compute function, no
\* recompute(), no write: nothing is swallowed or retried), and the cache of
\* the Derived holds the value its compute function last returned.
C14_ThrowPropagates ==
  \A x \in DOMAIN log : (log[x].t = "throw" /\ InFlush(x)) =>
    /\ threw
    /\ lastOp.op \in {"setState", "batchExit"}
    /\ \A y \in (x + 1)..Len(log) : log[y].t = "flushEnd"
    /\ dv[log[x].c].cachedState = lastRet[log[x].c]
    /\ comp[log[x].c].value = lastRet[log[x].c]

\* A compute function has thrown during the flush of a setState, after
\* another Derived was recomputed in that flush.
C14_Witness ==
  /\ lastOp.op = "setState" /\ threw
  /\ \E x \in DOMAIN log : log[x].t = "throw" /\ InFlush(x) /\ \E y \in 1..(x - 1) : log[y].t = "fn" /\ log[y].c # log[x].c

\* The same at the exit of a batch.
C14_WitnessBatch == lastOp.op = "batchExit" /\ threw /\ \E x \in DOMAIN log : log[x].t = "throw" /\ InFlush(x)

\* C15: when a call returns or throws, a compute function or an onUpdate
\* callback having thrown during its flush or not, __isFlushing is false and
\* __depsThatHaveWrittenThisTick and __initialBatchValues are empty; and the
\* setState that follows a call that threw starts a flush that calls
\* recompute() on every mounted Derived over the Store, unless it throws
\* before reaching it.
C15_FlushStateReset ==
  [][/\ isFlushing' = FALSE /\ depsThatHaveWrittenThisTick' = {} /\ initialBatchValues' = <<>>
     /\ \A s \in Stores : (threw /\ batchDepth = 0 /\ lastOp'.op = "setState" /\ lastOp'.c = s) =>
          \A d \in Deriveds : (Mounted(d) /\ DependsOn(d, s)) => (threw' \/ \E x \in DOMAIN log' : log'[x].t = "recompute" /\ log'[x].c = d)]_vars

\* A flush has ended by an exception after it had visited a Derived.
C15_Witness ==
  /\ threw /\ ~isFlushing /\ depsThatHaveWrittenThisTick = {}
  /\ \E x \in DOMAIN log : log[x].t \in {"throw", "throwOnUpdate"} /\ InFlush(x) /\ \E y \in 1..(x - 1) : log[y].t = "recompute"

\* The setState that follows a call that threw has recomputed a mounted
\* Derived: the last call did not throw, its write of A went from the value
\* for which B throws to another.
C15_WitnessNext == ~threw /\ Wrote("A") /\ Mounted("B") /\ kind["B"] = "strict" /\ Count("recompute", "B") = 1 /\ \E k \in DOMAIN log : log[k].t = "set" /\ log[k].pv = MaxVal

\* opts.eager is truthy.
Eager == "eager" \in DOMAIN fx.options /\ fx.options.eager
\* How many times the last call (or the constructors) invoked the fn of the
\* Effect.
EffectCalls == Cardinality({k \in DOMAIN log : log[k].t = "effect"})
\* The last call wrote A and the value of a dependency listed in the
\* options of the Effect is another after the write than before.
EffectDepChanged == \E k \in DOMAIN log : log[k].t = "set" /\ log[k].c = "A" /\ \E i \in DOMAIN fx.options.deps : ValueUnder(fx.options.deps[i], log[k].r) # ValueUnder(fx.options.deps[i], log[k].pv)

\* C16: the constructor of an Effect invokes fn once when eager is true and
\* not at all when it is false or absent; mount() does not invoke fn; once
\* the Effect is mounted (once, and not unmounted), a setState invokes fn
\* once when it changes the value of a listed dependency, Store or Derived,
\* and not at all when it changes none.
C16_EffectInvocations ==
  /\ lastOp.op = "new" => EffectCalls = IF Eager THEN 1 ELSE 0
  /\ lastOp.op = "effectMount" => EffectCalls = 0
  /\ (lastOp.op = "setState" /\ fx.made = 1 /\ lsn["E1"].on) => EffectCalls = IF EffectDepChanged THEN 1 ELSE 0

\* A write of A has changed Derived D, the one dependency of a mounted
\* Effect constructed with eager absent, and fn was invoked.
C16_Witness == lastOp.op = "setState" /\ fx.made = 1 /\ lsn["E1"].on /\ fx.options = [deps |-> <<"D">>] /\ EffectDepChanged /\ EffectCalls = 1
\* An eager Effect has been constructed.
C16_WitnessEager == lastOp.op = "new" /\ Eager /\ EffectCalls = 1
\* A write of A has changed no listed dependency of a mounted Effect.
C16_WitnessUnchanged == lastOp.op = "setState" /\ WroteChange("A") /\ fx.made = 1 /\ lsn["E1"].on /\ ~EffectDepChanged /\ EffectCalls = 0

\* Every unmount function mount() has returned was called.
AllUnmountsCalled == fx.made > 0 /\ \A i \in 1..fx.made : WatcherOrder[i] \in fx.called

\* C17: a call of a function returned by Effect.mount() does not throw, and
\* once every function mount() has returned was called (once or more) no
\* watcher of the Effect is running and no setState invokes fn.
C17_UnmountStopsWatcher ==
  /\ lastOp.op = "effectUnmount" => ~threw
  /\ AllUnmountsCalled => ((\A w \in Watchers : ~lsn[w].on) /\ (lastOp.op = "setState" => EffectCalls = 0))

\* The same for an Effect mounted once: holds.
C17_MountedOnce ==
  /\ lastOp.op = "effectUnmount" => ~threw
  /\ (AllUnmountsCalled /\ fx.made = 1) => ((\A w \in Watchers : ~lsn[w].on) /\ (lastOp.op = "setState" => EffectCalls = 0))

\* C18: a setState made outside of a batch on a Store with state p leaves
\* the Store with state (p + v) % (MaxVal + 1) when the updater is the
\* function adding v, with state v when the updater is the value v, and with
\* the state the custom updateFn gives for p and the updater when the Store
\* has one; prevState is p, and a read of state gives the new state.
C18_SetStateAssigns ==
  [][\A s \in Stores : (lastOp'.op = "setState" /\ lastOp'.c = s /\ batchDepth = 0 /\ ~threw') =>
       /\ sig'[s].value = IF storeOptions[s].updateFn THEN (lastOp'.v + 1) % (MaxVal + 1)
                          ELSE IF lastOp'.fn THEN (sig[s].value + lastOp'.v) % (MaxVal + 1)
                          ELSE lastOp'.v
       /\ storePrev'[s] = sig[s].value
       /\ \A k \in DOMAIN log' : (log'[k].t = "listener" /\ log'[k].c = s) => (log'[k].r = sig'[s].value /\ log'[k].pv = sig[s].value)]_vars

\* A Store with a Derived mounted over it was written with a function, and
\* its state changed.
C18_Witness == lastOp.op = "setState" /\ lastOp.fn /\ lastOp.depth = 0 /\ ~storeOptions[lastOp.c].updateFn /\ WroteChange(lastOp.c) /\ storeToDerived[lastOp.c] # <<>>
\* A Store with a custom updateFn was written.
C18_WitnessUpdateFn == lastOp.op = "setState" /\ lastOp.depth = 0 /\ storeOptions["A"].updateFn /\ lastOp.c = "A" /\ sig["A"].value # lastOp.v /\ Count("listener", "A") = 1

\* C19: the first call of the unmount function of Derived d takes d out of
\* every Store's dependent list and leaves every other Derived where it was
\* in each list, in the same order; the derived -> stores set of every other
\* Derived is as it was.
C19_UnmountRemovesOnlyItself ==
  [][\A d \in Deriveds :
       (lastOp'.op = "unmount" /\ lastOp'.c = d) =>
         /\ \A s \in Stores : storeToDerived'[s] = SelectSeq(storeToDerived[s], LAMBDA e : e # d)
         /\ \A e \in Deriveds \ {d} : derivedToStore'[e] = derivedToStore[e]]_vars

\* The Stores reached by walking the dependency lists from cell c.
RECURSIVE Reach(_)
Reach(c) == IF IsStore(c) THEN {c} ELSE UNION {Reach(deps[c][i]) : i \in DOMAIN deps[c]}
\* The Deriveds met on that walk from Derived d, d excepted.
RECURSIVE DerivedDeps(_)
DerivedDeps(d) == UNION {IF IsDerived(deps[d][i]) THEN {deps[d][i]} \cup DerivedDeps(deps[d][i]) ELSE {} : i \in DOMAIN deps[d]}
\* d is once in the dependent list of each Store it reaches, and its
\* derived -> stores set is the set of those Stores.
Registered(d) ==
  /\ \A s \in Reach(d) : Cardinality({i \in DOMAIN storeToDerived[s] : storeToDerived[s][i] = d}) = 1
  /\ d \in d2sHas /\ Range(derivedToStore[d]) = Reach(d)

\* C20: when d.mount() has returned, d is exactly once in the dependent
\* list of every Store reached from d through any number of Deriveds, the
\* derived -> stores set of d is the set of those Stores, and the same holds
\* of every Derived d depends on; registered before d, it stands before d in
\* every list that holds both as long as no unmount function was called.
C20_MountRegisters ==
  \A d \in Deriveds : (lastOp.op = "mount" /\ lastOp.c = d /\ ~threw) =>
    /\ Registered(d)
    /\ \A e \in DerivedDeps(d) :
         /\ Registered(e)
         /\ NeverUnmounted => \A s \in Reach(e) : IndexOf(storeToDerived[s], e) < IndexOf(storeToDerived[s], d)

\* D of the chain A -> B -> C -> D has been mounted: it reaches A through
\* two other Deriveds.
C20_Witness == lastOp.op = "mount" /\ lastOp.c = "D" /\ IsChain /\ storeToDerived["A"] = <<"B", "C", "D">>

\* C21: when a mount() has returned, in every Store's dependent list a
\* Derived whose dependency list includes another Derived of the list
\* stands after it, whatever mounts and unmounts were made before.
C21_ListOrderAfterMount ==
  lastOp.op = "mount" =>
    \A s \in Stores : \A i, j \in DOMAIN storeToDerived[s] :
      Includes(deps[storeToDerived[s][i]], storeToDerived[s][j]) => j < i

\* Both Stores were written in the batch that has just been applied, and
\* both got another state than they had when the batch started.
BothWritten == BatchApplied /\ ~threw /\ \A s \in Stores : batchWrites[s].n >= 1 /\ sig[s].value # atBatchStart[s]

\* C22: when the outermost batch in which both Stores were written exits, no
\* compute function is passed the new state of one Store with the state the
\* other had before the batch, and a mounted Derived that depends on both is
\* recomputed once.
C22_BatchCommitsBeforeRecompute ==
  BothWritten =>
    /\ \A x \in DOMAIN log : log[x].t = "fn" =>
         \A i, j \in DOMAIN deps[log[x].c] :
           (IsStore(deps[log[x].c][i]) /\ IsStore(deps[log[x].c][j]) /\ i # j) =>
             ~(log[x].cd[i] = sig[deps[log[x].c][i]].value /\ log[x].cd[j] = atBatchStart[deps[log[x].c][j]])
    /\ \A d \in Deriveds : (Mounted(d) /\ DependsOn(d, "A") /\ DependsOn(d, "S")) => Count("recompute", d) = 1

\* C23: when the outermost batch exits, the listener of each Store and each
\* Derived is called at most once.
C23_ListenerOncePerBatch == BatchApplied => \A c \in Cells : Count("listener", c) <= 1

\* C27: when the outermost batch has exited, by returning or by throwing,
\* every Store written in it holds the state its last queued update gives.
C27_BatchAppliesEveryUpdate == BatchApplied => \A s \in Stores : batchWrites[s].n >= 1 => sig[s].value = batchWrites[s].last

\* C28: a setState made inside a batch evaluates nothing; at the exit of the
\* outermost batch each Store written in it is assigned once, and the
\* updater evaluated is the one of the last setState made on it, applied to
\* the state the Store had when the batch began: the sum of that state and v
\* for the function adding v, however many such calls were queued.
C28_LastUpdaterAtExit ==
  /\ (lastOp.op = "setState" /\ lastOp.depth > 0) => log = <<>>
  /\ (BatchApplied /\ ~threw) =>
       \A s \in Stores : batchWrites[s].n >= 1 =>
         /\ Count("set", s) = 1
         /\ \A x \in DOMAIN log : (log[x].t = "set" /\ log[x].c = s) => log[x].pv = atBatchStart[s]
         /\ sig[s].value = IF batchWrites[s].u.fn THEN (atBatchStart[s] + batchWrites[s].u.v) % (MaxVal + 1) ELSE batchWrites[s].u.v

\* A batch in which A was written twice or more, last with the function
\* adding 1, has exited: A is 1 above its state at the start of the batch.
C28_Witness == BatchApplied /\ batchWrites["A"].n >= 2 /\ batchWrites["A"].u = [fn |-> TRUE, v |-> 1] /\ sig["A"].value = (atBatchStart["A"] + 1) % (MaxVal + 1) /\ Mounted("D")

\* C29: the batch depth is never below 0; the entry of batch() raises it by
\* one, the exit of batch() lowers it by one, whether the exit returns or
\* throws, and no other call changes it: each batch leaves the depth it
\* found.
C29_BatchDepthBalanced ==
  [][/\ batchDepth' \in 0..MaxBatchDepth
     /\ lastOp'.op = "batchEnter" => batchDepth' = batchDepth + 1
     /\ lastOp'.op = "batchExit" => batchDepth' = batchDepth - 1
     /\ lastOp'.op \notin {"batchEnter", "batchExit"} => batchDepth' = batchDepth]_vars

\* The outermost batch has exited by throwing (a compute function threw
\* while a queued update was applied), and the depth is 0.
C29_Witness == lastOp.op = "batchExit" /\ threw /\ batchDepth = 0 /\ \E x \in DOMAIN log : log[x].t = "throw"

\* C25: each invocation of a compute function after the first is passed, as
\* prevDepVals, the array it was passed as currDepVals at its previous
\* invocation, and as currDepVals the present values of its dependencies
\* (checked for the dependencies that are Stores, in calls that write each
\* Store once at most).
C25_PrevDepValsAreLastSeen ==
  \A x \in DOMAIN log : (log[x].t = "fn" /\ log[x].pdDef) =>
    /\ log[x].pd = log[x].lcd
    /\ \A i \in DOMAIN deps[log[x].c] : IsStore(deps[log[x].c][i]) => log[x].cd[i] = sig[deps[log[x].c][i]].value

\* C26: d.mount() calls recompute() on d when a Store among the direct
\* dependencies of d holds another state than the one the compute function
\* of d was passed at its last invocation, and does not call it when every
\* direct dependency has the value passed at that invocation.
C26_MountRecomputesWhenStale ==
  [][\A d \in Deriveds : (lastOp'.op = "mount" /\ lastOp'.c = d /\ ~threw') =>
       /\ (\E i \in DOMAIN deps[d] : IsStore(deps[d][i]) /\ sig'[deps[d][i]].value # lastCd[d][i])
            => \E x \in DOMAIN log' : log'[x].t = "recompute" /\ log'[x].c = d
       /\ (\A i \in DOMAIN deps[d] : lastCd[d][i] = IF IsStore(deps[d][i]) THEN sig'[deps[d][i]].value ELSE comp'[deps[d][i]].value)
            => \A x \in DOMAIN log' : ~(log'[x].t = "recompute" /\ log'[x].c = d)]_vars

\* Entry x of the last call's log is a write of a registered Store made
\* while a flush was in progress.
ReentrantSet(x) == log[x].t = "set" /\ log[x].c \in s2dHas /\ InFlush(x)

\* C24: in a call that does not throw, no flush starts while another is in
\* progress; a Store written by setState during a flush is taken from the
\* pending set by the loop of that flush, after the write and before the
\* flush ends; no Derived recomputed in the flush before the write is
\* recomputed again in it (the visited set was not cleared); and when the
\* call returns the pending set is empty and the flushing flag false.
C24_ReentrantWriteJoinsFlush ==
  ~threw =>
    /\ \A i, j \in DOMAIN log : (i < j /\ log[i].t = "flush" /\ log[j].t = "flush") => \E k \in (i + 1)..(j - 1) : log[k].t = "flushEnd"
    /\ \A x \in DOMAIN log : ReentrantSet(x) =>
         /\ \E y \in (x + 1)..Len(log) : log[y].t = "pick" /\ log[y].c = log[x].c /\ \A k \in x..y : log[k].t # "flushEnd"
         /\ \A i \in 1..(x - 1), j \in (x + 1)..Len(log) :
              (log[i].t = "recompute" /\ log[j].t = "recompute" /\ log[i].c = log[j].c) => \E k \in (i + 1)..(j - 1) : log[k].t = "flushEnd"
    /\ pendingUpdates = <<>> /\ ~isFlushing

\* D's onUpdate has written A, which D depends on, during the flush of a
\* write of A, after B, C and D were recomputed.
C24_Witness == ~threw /\ Wrote("A") /\ Count("set", "A") = 2 /\ Count("pick", "A") = 2 /\ Count("recompute", "D") = 1 /\ Count("flush", "A") = 1

\* ------------------------------------------------ A flush, pass by pass
\* store.setState(updater) outside of a batch, up to the while loop of
\* __flush.
SetStateToLoop(s, u) ==
  /\ calls < MaxCalls
  /\ ~isFlushing
  /\ Commit(QueueSignalUpdate(MachineStepwise, s, u))
  /\ lastOp' = [op |-> "setState", c |-> s, v |-> u.v, fn |-> u.fn, depth |-> batchDepth, pass |-> 0]
  /\ OutsideBatch
  /\ UNCHANGED handles

\* What tells a pass of the loop from every other step: the loop condition
\* holds and the pass is counted.
PassTaken ==
  /\ isFlushing
  /\ pendingUpdates # <<>>
  /\ lastOp' = [lastOp EXCEPT !.op = "flushPass", !.pass = 1 - @]

\* One pass of the while loop of __flush; a pass that throws leaves
\* through the finally block. lastOp.pass is the parity of the number of
\* passes the flush has made.
FlushPass ==
  /\ isFlushing
  /\ pendingUpdates # <<>>
  /\ LET m == FlushIteration(MachineStepwise)
     IN CommitState(IF m.thrown THEN FlushFinally(m, lastOp.c) ELSE m)
  /\ PassTaken
  /\ UNCHANGED <<calls, handles, atBatchStart, batchWrites>>

\* The while loop of __flush finds __pendingUpdates empty: the finally
\* block, and the return of setState.
FlushExit ==
  /\ isFlushing
  /\ pendingUpdates = <<>>
  /\ CommitState(FlushFinally(MachineStepwise, lastOp.c))
  /\ UNCHANGED <<calls, handles, lastOp, atBatchStart, batchWrites>>

\* derived.mount(), called when no flush is in progress.
MountIdle(d) == ~isFlushing /\ Mount(d)

\* Graphs in which an onUpdate callback writes a Store during the flush,
\* one of them a Store the Derived itself depends on.
InitTerminate == InitWith(Reentrant \cup {Feedback})

NextTerminate ==
  \/ \E s \in Used, u \in Plain : SetStateToLoop(s, u)
  \/ FlushPass
  \/ FlushExit
  \/ \E d \in Deriveds : MountIdle(d)

\* The code is synchronous: once __flush has entered its loop the thread
\* goes on with the next pass, or with the exit, until the call returns.
\* A step of NextTerminate is a PassTaken step that changes lastOp exactly
\* when it is a FlushPass step, and FlushPass is enabled exactly when the
\* loop condition holds, so the first condition is weak fairness of
\* FlushPass.
SpecTerminate == InitTerminate /\ [][NextTerminate]_vars /\ WF_lastOp(PassTaken) /\ WF_vars(FlushExit)

\* C30: a flush that has entered its loop comes to a state in which the
\* pending set is empty and the flushing flag has been reset.
C30_FlushTerminates == isFlushing ~> (~isFlushing /\ pendingUpdates = <<>>)

\* A pass of the loop in which an onUpdate callback wrote a Store has left
\* that Store pending: the loop has another pass to make.
C30_Witness ==
  /\ isFlushing
  /\ \E x, y \in DOMAIN log : x < y /\ log[x].t = "pick" /\ log[y].t = "set" /\ \E i \in DOMAIN pendingUpdates : pendingUpdates[i] = log[y].c

\* C31: a write of Store s made outside of a batch calls recompute() only
\* on Deriveds that reach s through their dependencies.
C31_FlushRecomputesDependentsOnly ==
  \A s \in Stores : Wrote(s) =>
    \A x \in DOMAIN log : log[x].t = "recompute" => s \in Reach(log[x].c)

\* C32: Derived d is in the dependent list of Store s if and only if s is
\* in the derived -> stores set of d.
C32_RegistryTablesMirror ==
  \A s \in Stores, d \in Deriveds :
    (\E i \in DOMAIN storeToDerived[s] : storeToDerived[s][i] = d) <=> (d \in d2sHas /\ s \in Range(derivedToStore[d]))

\* C33: between calls, no batch being open, whether the last call returned
\* or threw, __isFlushing is false and __pendingUpdates,
\* __pendingSignalUpdates, __depsThatHaveWrittenThisTick and
\* __initialBatchValues are empty.
C33_SchedulerIdle ==
  batchDepth = 0 =>
    /\ ~isFlushing
    /\ pendingUpdates = <<>>
    /\ pendingSignalUpdates = <<>>
    /\ depsThatHaveWrittenThisTick = {}
    /\ initialBatchValues = <<>>

====
